---- MODULE Spec2Model ----
(***************************************************************************)
(* Model of the Intelligence Engine.                                       *)
(* Self-healing path (specification Spec):                                 *)
(*   services/self_healer.py  SelfHealer (dispatcher and strategies)       *)
(*   main.py                  trigger_healing (POST /api/v1/heal)          *)
(*   models/db_models.py      HealingAction (table healing_actions)        *)
(*   database.py              get_db (session per request)                 *)
(*   monitoring.py            healing_actions_total                        *)
(* Ingestion path (specification SpecIngest):                              *)
(*   services/commit_analyzer.py, log_analyzer.py, trace_analyzer.py       *)
(*   main.py                  analyze_commit, analyze_logs, analyze_traces *)
(*   models/db_models.py      CommitAnalysis, LogAnalysis, TraceAnalysis   *)
(* Trace analyzer called directly (specification SpecAnalyze):             *)
(*   services/trace_analyzer.py  TraceAnalyzer.analyze_traces              *)
(* Detection models and training (specification SpecModels):               *)
(*   models/predictions.py    BaseModelStub and the three models           *)
(*   main.py                  trigger_training (POST /api/v1/train)        *)
(* Status views (specifications SpecStatus, SpecStore):                    *)
(*   main.py                  get_commit_status .. get_platform_overview   *)
(***************************************************************************)
EXTENDS Integers, Sequences, FiniteSets, TLC

(***************************************************************************)
(* Bounds of the model.                                                    *)
(***************************************************************************)
\* number of heal requests received in one behaviour
MaxRequests == 2
\* the wall clock runs over the instants 0..MaxClock
MaxClock == 2
\* clock instants per calendar second (strftime %S drops the rest)
TicksPerSecond == 2
\* number of ingestion requests received in one behaviour
MaxIngest == 1
\* number of records in one ingested batch
MaxBatch == 2
\* number of training requests handled
MaxTrainRequests == 1
\* number of rows a table holds when the application starts
MaxRows == 2

(***************************************************************************)
(* Values.                                                                 *)
(***************************************************************************)
\* Python None / SQL NULL
None == "None"

\* issue_type values sent by clients: registered ones and one that is not
IssueTypeInputs == {"connection_timeout", "unknown_xyz"}

\* request.context values: a dict is a set of <<key, value>> pairs
Contexts == { {}, {<<"service", "x">>} }

\* an Exception surfacing inside the awaited strategy call, or none
NoFault == "no_fault"
StrategyFaults == {NoFault, "strategy failed"}

\* outcome of db.commit() apart from the unique constraint
StorageOutcomes == {"ok", "OperationalError"}

\* level values of log entries: LOG_LEVELS of the repository's own clients
\* (without DEBUG) and the spelling the analyzer compares with
LogLevelInputs == {"INFO", "WARNING", "ERROR", "WARN"}

\* duration_ms values of trace entries
DurationInputs == {100, 1000, 5000}

\* sequences over S of length at most n
SeqUpTo(S, n) == UNION {[1..k -> S] : k \in 0..n}

\* request.logs after model_dump(): the analyzer reads the level only
LogBatches == SeqUpTo([level : LogLevelInputs, service : {"api-gateway"}], MaxBatch)

\* request.traces after model_dump()
TraceBatches == SeqUpTo([service : {"api-gateway"}, duration_ms : DurationInputs], MaxBatch)

\* query parameters of POST /api/v1/analyze/commit
CommitInputs == [repository : {"org/repo"}, commit_hash : {"abc123"}]

VARIABLES
    enabled,                \* SelfHealer.enabled
    dry_run,                \* SelfHealer.dry_run
    now,                    \* the wall clock, in instants
    requests,               \* heal requests received, in order of arrival
    healing_actions,        \* committed rows of table healing_actions
    healing_actions_total,  \* Prometheus counter, by <<action_type, status>>
    ingest_requests,        \* ingestion requests handled, in order of arrival
    commit_analyses,        \* committed rows of table commit_analyses
    log_analyses,           \* committed rows of table log_analyses
    trace_analyses,         \* committed rows of table trace_analyses
    background_tasks,       \* tasks added to BackgroundTasks, not yet run
    predictions_total,      \* Prometheus counter, by <<model_type, result>>
    last_analysis,          \* the latest direct call of TraceAnalyzer.analyze_traces
    detectors,              \* the three detection models of app.state, by model_type
    train_requests,         \* training requests handled, in order of arrival
    train_tasks,            \* train tasks added to BackgroundTasks, not yet run
    last_prediction,        \* the latest call of a detection model's predict
    last_view               \* the latest status view served

\* the state written by the ingestion handlers
ingestVars == <<ingest_requests, commit_analyses, log_analyses, trace_analyses,
                background_tasks, predictions_total>>

\* the state written by the heal handler
healVars == <<requests, healing_actions, healing_actions_total>>

\* the state written by the training handler, the train tasks and predict calls
modelVars == <<detectors, train_requests, train_tasks, last_prediction>>

\* the records kept of direct analyzer calls and of status views
observerVars == <<last_analysis, last_view>>

vars == <<enabled, dry_run, now, requests, healing_actions, healing_actions_total,
          ingest_requests, commit_analyses, log_analyses, trace_analyses,
          background_tasks, predictions_total,
          last_analysis, detectors, train_requests, train_tasks, last_prediction,
          last_view>>

(***************************************************************************)
(* dict helpers                                                            *)
(***************************************************************************)
\* dict.get(key, default)
DictGet(d, key, default) ==
    IF \E p \in d : p[1] = key
    THEN (CHOOSE p \in d : p[1] = key)[2]
    ELSE default

\* truthiness of dict.get(key): missing key and empty string are falsy
Truthy(d, key) == DictGet(d, key, "") /= ""

\* result.get(field, default) on a result record
RecGet(rec, field, default) ==
    IF field \in DOMAIN rec THEN rec[field] ELSE default

(***************************************************************************)
(* Outcome of a Python call: a returned value or a raised exception.       *)
(***************************************************************************)
Return(v) == [kind |-> "return", value |-> v]
Raise(e) == [kind |-> "raise", exc |-> e]

(***************************************************************************)
(* SelfHealer                                                              *)
(***************************************************************************)
\* keys of SelfHealer.healing_strategies
healing_strategies ==
    {"high_memory", "high_cpu", "error_spike", "slow_response",
     "connection_timeout", "database_slow"}

heal_memory_issue(context, t) ==
    [status |-> "success", issue_type |-> "high_memory",
     actions_taken |->
        <<"Cleared application caches", "Triggered garbage collection">>
        \o (IF Truthy(context, "service")
            THEN <<"Requested scale-up for service: " \o DictGet(context, "service", "")>>
            ELSE <<>>),
     timestamp |-> t]

heal_cpu_issue(context, t) ==
    [status |-> "success", issue_type |-> "high_cpu",
     actions_taken |->
        <<"Enabled rate limiting for expensive operations">>
        \o (IF Truthy(context, "service")
            THEN <<"Requested horizontal scaling for: " \o DictGet(context, "service", "")>>
            ELSE <<>>),
     timestamp |-> t]

heal_error_spike(context, t) ==
    [status |-> "success", issue_type |-> "error_spike",
     actions_taken |->
        <<"Enabled circuit breaker for failing service">>
        \o (IF Truthy(context, "recent_deployment")
            THEN <<"Triggered rollback to previous stable version">>
            ELSE <<>>)
        \o <<"Increased retry backoff for failing operations">>,
     timestamp |-> t]

heal_slow_response(context, t) ==
    [status |-> "success", issue_type |-> "slow_response",
     actions_taken |->
        <<"Applied query optimization hints",
          "Enabled caching for slow endpoints",
          "Requested resource scaling">>,
     timestamp |-> t]

\* a strategy whose steps depend on when it is called
heal_connection_timeout_Stateful(context, t) ==
    [status |-> "success", issue_type |-> "connection_timeout",
     actions_taken |->
        <<"Increased connection timeout threshold",
          "Optimized connection pool settings">>
        \o (IF Truthy(context, "service") /\ t = 0
            THEN <<"Scheduled rolling restart for: " \o DictGet(context, "service", "")>>
            ELSE <<>>),
     timestamp |-> t]

heal_connection_timeout(context, t) ==
    [status |-> "success", issue_type |-> "connection_timeout",
     actions_taken |->
        <<"Increased connection timeout threshold",
          "Optimized connection pool settings">>
        \o (IF Truthy(context, "service")
            THEN <<"Scheduled rolling restart for: " \o DictGet(context, "service", "")>>
            ELSE <<>>),
     timestamp |-> t]

heal_database_slow(context, t) ==
    [status |-> "success", issue_type |-> "database_slow",
     actions_taken |->
        (IF Truthy(context, "slow_queries")
         THEN <<"Analyzed slow queries and suggested indexes">>
         ELSE <<>>)
        \o <<"Optimized database query cache",
             "Suggested read replica configuration">>,
     timestamp |-> t]

\* await self.healing_strategies[issue_type](context)
RunStrategy(issue_type, context, t, fault) ==
    IF fault /= NoFault
    THEN Raise(fault)
    ELSE Return(CASE issue_type = "high_memory" -> heal_memory_issue(context, t)
                  [] issue_type = "high_cpu" -> heal_cpu_issue(context, t)
                  [] issue_type = "error_spike" -> heal_error_spike(context, t)
                  [] issue_type = "slow_response" -> heal_slow_response(context, t)
                  [] issue_type = "connection_timeout" -> heal_connection_timeout(context, t)
                  [] issue_type = "database_slow" -> heal_database_slow(context, t))

\* the body of the try block of SelfHealer.heal
HealTry(dry, issue_type, context, t, fault) ==
    IF issue_type \notin healing_strategies
    THEN Return([status |-> "unknown_issue",
                 message |-> "No healing strategy for issue type: " \o issue_type])
    ELSE IF dry
    THEN Return([status |-> "dry_run",
                 message |-> "Would heal " \o issue_type \o " (dry run mode)",
                 context |-> context])
    ELSE RunStrategy(issue_type, context, t, fault)

\* heal without its except clause: the exception leaves the dispatcher
heal_NoExcept(en, dry, issue_type, context, t, fault) ==
    IF ~en
    THEN Return([status |-> "disabled", message |-> "Self-healing is disabled"])
    ELSE HealTry(dry, issue_type, context, t, fault)

\* SelfHealer.heal
heal(en, dry, issue_type, context, t, fault) ==
    IF ~en
    THEN Return([status |-> "disabled", message |-> "Self-healing is disabled"])
    ELSE LET body == HealTry(dry, issue_type, context, t, fault)
         IN IF body.kind = "raise"
            THEN Return([status |-> "error", message |-> body.exc])
            ELSE body

(***************************************************************************)
(* trigger_healing                                                         *)
(***************************************************************************)
\* f"heal-{datetime.now(timezone.utc).strftime('%Y%m%d-%H%M%S')}"
ActionId(t) == "heal-" \o ToString(t \div TicksPerSecond)

\* the row built with success already set while the status is in_progress
NewHealingAction_SuccessSet(action_id, issue_type, context, result) ==
    [action_id |-> action_id,
     issue_type |-> issue_type,
     service |-> DictGet(context, "service", "unknown"),
     status |-> "in_progress",
     action_taken |-> RecGet(result, "action", "Processing..."),
     success |-> "True",
     error_message |-> None,
     context |-> context]

\* HealingAction(...) as constructed by trigger_healing
NewHealingAction(action_id, issue_type, context, result) ==
    [action_id |-> action_id,
     issue_type |-> issue_type,
     service |-> DictGet(context, "service", "unknown"),
     status |-> "in_progress",
     action_taken |-> RecGet(result, "action", "Processing..."),
     success |-> None,
     error_message |-> None,
     context |-> context]

\* the unique index on healing_actions.action_id
UniqueViolation(table, row) ==
    \E i \in 1..Len(table) : table[i].action_id = row.action_id

\* an insert that instead reuses the row of the same issue_type and service,
\* putting it back to pending
InsertRow_Upsert(table, row, t) ==
    IF \E i \in 1..Len(table) :
          table[i].issue_type = row.issue_type /\ table[i].service = row.service
    THEN LET i == CHOOSE k \in 1..Len(table) :
                    table[k].issue_type = row.issue_type /\ table[k].service = row.service
         IN [table EXCEPT ![i] =
                [id |-> table[i].id, created_at |-> table[i].created_at, updated_at |-> t]
                @@ [row EXCEPT !.status = "pending"]]
    ELSE Append(table, [id |-> Len(table) + 1, created_at |-> t, updated_at |-> t] @@ row)

\* INSERT of one row: primary key and server-side timestamps are filled in
InsertRow(table, row, t) ==
    Append(table, [id |-> Len(table) + 1, created_at |-> t, updated_at |-> t] @@ row)

\* Counter.labels(...).inc()
Inc(counter, label) ==
    [l \in (DOMAIN counter) \cup {label} |->
        IF l = label
        THEN (IF l \in DOMAIN counter THEN counter[l] ELSE 0) + 1
        ELSE counter[l]]

\* raise HTTPException(status_code=500, detail=str(e))
HTTP500(detail) == [status_code |-> 500, detail |-> detail]

\* return {**result, "action_id": action_id}
HTTP200(result, action_id) ==
    [status_code |-> 200, body |-> [action_id |-> action_id] @@ result]

NoResponse == [status_code |-> 0]

\* what await db.commit() raises for this row, or None
CommitError(storage, table, row) ==
    IF storage /= "ok" THEN storage
    ELSE IF UniqueViolation(table, row) THEN "IntegrityError"
    ELSE None

\* a handler that answers 200 although the commit raised
HandlerResponse_Swallow(error, result, action_id) ==
    HTTP200(result, action_id)

\* the answer of trigger_healing once db.commit() has returned or raised
HandlerResponse(error, result, action_id) ==
    IF error /= None THEN HTTP500(error) ELSE HTTP200(result, action_id)

\* get_db after the handler: commit and close, or rollback and close when
\* the handler raised
SessionEnd(response) ==
    IF response.status_code = 200 THEN "committed_closed" ELSE "rolled_back_closed"

(***************************************************************************)
(* Detection models (models/predictions.py).  Scores and thresholds are in *)
(* thousandths, the precision round(..., 3) leaves.                        *)
(***************************************************************************)
\* settings.BREAKING_CHANGE_THRESHOLD = 0.7, ANOMALY_THRESHOLD = 0.8,
\* PERFORMANCE_DEGRADATION_THRESHOLD = 0.15
BREAKING_CHANGE_THRESHOLD == 700
ANOMALY_THRESHOLD == 800
PERFORMANCE_DEGRADATION_THRESHOLD == 150

\* last_trained_at of a model that was never trained
NotTrained == <<>>

\* BaseModelStub.__init__
BaseModelStub(name) ==
    [name |-> name, last_trained_at |-> NotTrained, version |-> "0.1.0-stub"]

BreakingChangeDetector ==
    BaseModelStub("breaking_change_detector") @@ [threshold |-> BREAKING_CHANGE_THRESHOLD]

AnomalyDetector ==
    BaseModelStub("anomaly_detector") @@ [threshold |-> ANOMALY_THRESHOLD]

PerformancePredictor ==
    BaseModelStub("performance_predictor")
        @@ [degradation_threshold |-> PERFORMANCE_DEGRADATION_THRESHOLD]

\* the models lifespan() puts in app.state, by the model_type that names them
Detectors ==
    [model_type \in {"breaking_change", "anomaly", "performance"} |->
        IF model_type = "breaking_change" THEN BreakingChangeDetector
        ELSE IF model_type = "anomaly" THEN AnomalyDetector
        ELSE PerformancePredictor]

\* BaseModelStub.train: the assignment to self.last_trained_at left out, the
\* version marked instead
train_Partial(self, t) ==
    [self EXCEPT !.version = "training"]

\* BaseModelStub.train: self.last_trained_at = datetime.now(timezone.utc); the
\* Optional datetime is a sequence of at most one instant
train(self, t) ==
    [self EXCEPT !.last_trained_at = <<t>>]

\* BreakingChangeDetector.predict with > in place of >=
BreakingChangeDetector_predict_Strict(self, commit_analysis, probability, t) ==
    [model |-> self.name,
     probability_breaking |-> probability,
     threshold |-> self.threshold,
     is_breaking |-> probability > self.threshold,
     commit |-> RecGet(commit_analysis, "commit_hash", None),
     timestamp |-> t]

\* BreakingChangeDetector.predict; probability is round(random.uniform(0, 1), 3)
BreakingChangeDetector_predict(self, commit_analysis, probability, t) ==
    [model |-> self.name,
     probability_breaking |-> probability,
     threshold |-> self.threshold,
     is_breaking |-> probability >= self.threshold,
     commit |-> RecGet(commit_analysis, "commit_hash", None),
     timestamp |-> t]

\* AnomalyDetector.detect_anomalies; anomaly_score is round(random.uniform(0, 1), 3)
AnomalyDetector_detect_anomalies(self, log_analysis, anomaly_score, t) ==
    [model |-> self.name,
     anomaly_score |-> anomaly_score,
     threshold |-> self.threshold,
     has_anomaly |-> anomaly_score >= self.threshold,
     log_count |-> RecGet(log_analysis, "log_count", None),
     timestamp |-> t]

\* PerformancePredictor.predict; predicted_degradation is
\* round(random.uniform(0, 0.5), 3)
PerformancePredictor_predict(self, trace_analysis, predicted_degradation, t) ==
    [model |-> self.name,
     predicted_degradation |-> predicted_degradation,
     degradation_threshold |-> self.degradation_threshold,
     at_risk |-> predicted_degradation >= self.degradation_threshold,
     avg_latency_ms |-> RecGet(trace_analysis, "avg_latency_ms", None),
     timestamp |-> t]

\* values of round(random.uniform(0, 1), 3), in thousandths
UniformScores ==
    {0, 1000}
        \cup {BREAKING_CHANGE_THRESHOLD - 1, BREAKING_CHANGE_THRESHOLD}
        \cup {ANOMALY_THRESHOLD - 1, ANOMALY_THRESHOLD}

\* values of round(random.uniform(0, 0.5), 3), in thousandths
HalfUniformScores ==
    {0, 500}
        \cup {PERFORMANCE_DEGRADATION_THRESHOLD - 1, PERFORMANCE_DEGRADATION_THRESHOLD}

\* TrainingRequest.model_type
ModelTypeInputs == {"breaking_change", "anomaly", "performance", "unknown_model"}

NoAnalysis == [kind |-> "none"]
NoPrediction == [model |-> "none"]
NoView == [view |-> "none"]

(***************************************************************************)
(* Initial state: the application has started, SelfHealer() has read the   *)
(* two flags from the settings, the tables are empty.                      *)
(***************************************************************************)
Init ==
    /\ enabled \in BOOLEAN
    /\ dry_run \in BOOLEAN
    /\ now = 0
    /\ requests = <<>>
    /\ healing_actions = <<>>
    /\ healing_actions_total = [l \in {} |-> 0]
    /\ ingest_requests = <<>>
    /\ commit_analyses = <<>>
    /\ log_analyses = <<>>
    /\ trace_analyses = <<>>
    /\ background_tasks = <<>>
    /\ predictions_total = [l \in {} |-> 0]
    /\ last_analysis = NoAnalysis
    /\ detectors = Detectors
    /\ train_requests = <<>>
    /\ train_tasks = <<>>
    /\ last_prediction = NoPrediction
    /\ last_view = NoView

\* time passes
Tick ==
    /\ now < MaxClock
    /\ now' = now + 1
    /\ UNCHANGED <<enabled, dry_run, requests, healing_actions, healing_actions_total>>
    /\ UNCHANGED ingestVars
    /\ UNCHANGED <<modelVars, observerVars>>

\* trigger_healing up to db.add(healing_action): the dispatcher is called,
\* the action id is stamped and the row is added to the session
TriggerHealingBegin(issue_type, context, fault) ==
    /\ Len(requests) < MaxRequests
    \* a strategy can only fail where heal calls one
    /\ fault /= NoFault => (enabled /\ ~dry_run /\ issue_type \in healing_strategies)
    /\ LET outcome == heal(enabled, dry_run, issue_type, context, now, fault)
           raised == outcome.kind = "raise"
           aid == ActionId(now)
       IN requests' = Append(requests,
            [issue_type |-> issue_type,
             context |-> context,
             fault |-> fault,
             \* the requests still being handled when this one arrives
             overlaps |-> {q \in 1..Len(requests) : requests[q].pc = "commit"},
             outcome |-> outcome,
             action_id |-> IF raised THEN None ELSE aid,
             healing_action |->
                IF raised THEN [action_id |-> None]
                ELSE NewHealingAction(aid, issue_type, context, outcome.value),
             pc |-> IF raised THEN "failed" ELSE "commit",
             commit_error |-> None,
             session |-> IF raised THEN SessionEnd(HTTP500(outcome.exc)) ELSE "open",
             response |-> IF raised THEN HTTP500(outcome.exc) ELSE NoResponse])
    /\ UNCHANGED <<enabled, dry_run, now, healing_actions, healing_actions_total>>
    /\ UNCHANGED ingestVars
    /\ UNCHANGED <<modelVars, observerVars>>

\* await db.commit() and what follows it: the row is written, the counter is
\* incremented and the result returned; or the commit raises, the handler
\* answers 500 and get_db rolls the session back
TriggerHealingCommit(r, storage) ==
    /\ r \in 1..Len(requests)
    /\ requests[r].pc = "commit"
    /\ LET req == requests[r]
           error == CommitError(storage, healing_actions, req.healing_action)
           response == HandlerResponse(error, req.outcome.value, req.action_id)
       IN /\ requests' = [requests EXCEPT
                 ![r].pc = IF response.status_code = 200 THEN "done" ELSE "failed",
                 ![r].commit_error = error,
                 ![r].session = SessionEnd(response),
                 ![r].response = response]
          /\ IF error /= None
             THEN UNCHANGED <<healing_actions, healing_actions_total>>
             ELSE /\ healing_actions' = InsertRow(healing_actions, req.healing_action, now)
                  /\ healing_actions_total' =
                         Inc(healing_actions_total, <<req.issue_type, "success">>)
    /\ UNCHANGED <<enabled, dry_run, now>>
    /\ UNCHANGED ingestVars
    /\ UNCHANGED <<modelVars, observerVars>>

Next ==
    \/ Tick
    \/ \E issue_type \in IssueTypeInputs, context \in Contexts, fault \in StrategyFaults :
          TriggerHealingBegin(issue_type, context, fault)
    \/ \E r \in 1..MaxRequests, storage \in StorageOutcomes :
          TriggerHealingCommit(r, storage)

Spec == Init /\ [][Next]_vars

(***************************************************************************)
(* Analyzers                                                               *)
(***************************************************************************)
\* sum(1 for log in logs if log.get("level") == level)
CountLevel(logs, level) ==
    Cardinality({i \in 1..Len(logs) : logs[i].level = level})

\* CommitAnalyzer.analyze_commit
analyze_commit(repository, commit_hash, t) ==
    [status |-> "success",
     repository |-> repository,
     commit_hash |-> commit_hash,
     timestamp |-> t,
     findings |-> [breaking_changes |-> <<>>,
                   code_quality_score |-> 85,
                   security_issues |-> <<>>,
                   complexity_score |-> 72],
     recommendations |-> <<"Consider adding more unit tests",
                           "Review error handling in new code">>]

\* LogAnalyzer.analyze_logs
analyze_logs(logs, t) ==
    LET error_count == CountLevel(logs, "ERROR")
        warning_count == CountLevel(logs, "WARN")
    IN [status |-> "success",
        timestamp |-> t,
        summary |-> [total_logs |-> Len(logs),
                     error_count |-> error_count,
                     warning_count |-> warning_count],
        patterns |->
            IF error_count > 10
            THEN <<"High error rate detected in database connections",
                   "Repeated timeout errors in external API calls">>
            ELSE <<>>,
        recommendations |->
            IF error_count > 10
            THEN <<"Investigate database connection pool settings",
                   "Review external API timeout configurations">>
            ELSE <<>>]

\* t.get("duration_ms", 0)
DurationOf(t) == RecGet(t, "duration_ms", 0)

\* the test of the slow_traces comprehension, with >= in place of >
IsSlow_Inclusive(t) == DurationOf(t) >= 1000

\* t.get("duration_ms", 0) > 1000
IsSlow(t) == DurationOf(t) > 1000

RECURSIVE SumDurations(_)
\* sum(t.get("duration_ms", 0) for t in traces)
SumDurations(traces) ==
    IF traces = <<>> THEN 0
    ELSE DurationOf(traces[1]) + SumDurations(Tail(traces))

\* round(n / d, 0) as Python rounds: to nearest, a tie to the even side
RoundHalfEven(n, d) ==
    LET q == n \div d
        r == n % d
    IN IF 2 * r < d THEN q
       ELSE IF 2 * r > d THEN q + 1
       ELSE IF q % 2 = 0 THEN q ELSE q + 1

\* round(factor * total / count, 2), as a number of hundredths; 0 for no traces
RoundedMean(total, count, factor_x100) ==
    IF count = 0 THEN 0 ELSE RoundHalfEven(total * factor_x100, count)

\* TraceAnalyzer.analyze_traces; the three durations are in hundredths of a ms
analyze_traces(traces, t) ==
    LET slow_traces == {i \in 1..Len(traces) : IsSlow(traces[i])}
        total == SumDurations(traces)
    IN [status |-> "success",
        timestamp |-> t,
        summary |-> [total_traces |-> Len(traces),
                     slow_traces |-> Cardinality(slow_traces),
                     avg_duration_ms |-> RoundedMean(total, Len(traces), 100),
                     p95_duration_ms |-> RoundedMean(total, Len(traces), 150),
                     p99_duration_ms |-> RoundedMean(total, Len(traces), 200)],
        bottlenecks |->
            IF Cardinality(slow_traces) > 5
            THEN <<[service |-> "database", avg_latency_ms |-> 450,
                    issue |-> "Slow query performance"],
                   [service |-> "external-api", avg_latency_ms |-> 800,
                    issue |-> "High network latency"]>>
            ELSE <<>>,
        recommendations |->
            IF Cardinality(slow_traces) > 5
            THEN <<"Optimize database queries with proper indexing",
                   "Implement caching for external API calls",
                   "Consider increasing connection pool size">>
            ELSE <<>>]

(***************************************************************************)
(* analyze_commit, analyze_logs, analyze_traces                            *)
(***************************************************************************)
\* result[...] subscripts of each handler, in the order they are evaluated
CommitAnalysisKeys ==
    <<"repository", "commit_hash", "changed_files", "lines_added",
      "lines_deleted", "risky_patterns", "complexity_delta">>

LogAnalysisKeys ==
    <<"log_count", "error_count", "warning_count", "info_count",
      "distinct_services", "error_rate", "dominant_level", "spike_score">>

TraceAnalysisKeys ==
    <<"trace_count", "avg_duration_ms", "max_duration_ms", "min_duration_ms",
      "slow_traces", "distinct_services">>

\* the first subscript that raises KeyError, or None
FirstMissing(result, keys) ==
    IF \A i \in 1..Len(keys) : keys[i] \in DOMAIN result
    THEN None
    ELSE keys[CHOOSE i \in 1..Len(keys) :
                 /\ keys[i] \notin DOMAIN result
                 /\ \A j \in 1..(i - 1) : keys[j] \in DOMAIN result]

\* str(KeyError(key))
KeyErrorText(key) == "'" \o key \o "'"

\* the exception the try block of an ingestion handler ends with, or None
IngestError(result, keys, storage) ==
    IF FirstMissing(result, keys) /= None
    THEN KeyErrorText(FirstMissing(result, keys))
    ELSE IF storage /= "ok" THEN storage
    ELSE None

\* return result, or raise HTTPException(status_code=500, detail=str(e))
IngestResponse(error, result) ==
    IF error /= None THEN HTTP500(error)
    ELSE [status_code |-> 200, body |-> result]

\* the columns read from the result, with the handler's fixed columns
AnalysisRow(result, keys, fixed) ==
    [k \in {keys[i] : i \in 1..Len(keys)} |-> result[k]] @@ fixed

\* INSERT of one analysis row: primary key and created_at are filled in
InsertAnalysis(table, row, t) ==
    Append(table, [id |-> Len(table) + 1, created_at |-> t] @@ row)

\* background_tasks.add_task placed ahead of the try block
AddTask_BeforeCommit(error, tasks, task) == Append(tasks, task)

\* background_tasks.add_task(func, result), the statement after db.commit()
AddTask(error, tasks, task) ==
    IF error /= None THEN tasks ELSE Append(tasks, task)

\* the record kept of one handled ingestion request
IngestRecord(kind, input, result, error) ==
    [kind |-> kind,
     input |-> input,
     result |-> result,
     error |-> error,
     session |-> SessionEnd(IngestResponse(error, result)),
     response |-> IngestResponse(error, result)]

\* POST /api/v1/analyze/commit
AnalyzeCommit(input, storage) ==
    /\ Len(ingest_requests) < MaxIngest
    /\ LET result == analyze_commit(input.repository, input.commit_hash, now)
           error == IngestError(result, CommitAnalysisKeys, storage)
       IN /\ ingest_requests' =
                 Append(ingest_requests, IngestRecord("commit", input, result, error))
          /\ IF error /= None
             THEN UNCHANGED <<commit_analyses, predictions_total>>
             ELSE /\ commit_analyses' = InsertAnalysis(commit_analyses,
                         AnalysisRow(result, CommitAnalysisKeys,
                            [should_commit |-> TRUE, code_quality_score |-> 85,
                             test_coverage |-> 78, breaking_changes |-> 0,
                             confidence |-> 92, recommendation |-> "Analysis completed",
                             reasons |-> <<>>, issues |-> <<>>]),
                         now)
                  /\ predictions_total' =
                         Inc(predictions_total, <<"breaking_change", "safe">>)
          /\ background_tasks' = AddTask(error, background_tasks,
                 [func |-> "breaking_change_detector.predict",
                  arg |-> result,
                  for_request |-> Len(ingest_requests) + 1])
    /\ UNCHANGED <<log_analyses, trace_analyses>>
    /\ UNCHANGED <<enabled, dry_run, now>>
    /\ UNCHANGED healVars
    /\ UNCHANGED <<modelVars, observerVars>>

\* POST /api/v1/analyze/logs
AnalyzeLogs(logs, storage) ==
    /\ Len(ingest_requests) < MaxIngest
    /\ LET result == analyze_logs(logs, now)
           error == IngestError(result, LogAnalysisKeys, storage)
       IN /\ ingest_requests' =
                 Append(ingest_requests, IngestRecord("logs", logs, result, error))
          /\ IF error /= None
             THEN UNCHANGED log_analyses
             ELSE /\ log_analyses' = InsertAnalysis(log_analyses,
                         AnalysisRow(result, LogAnalysisKeys, [anomalies_detected |-> 0]),
                         now)
          /\ background_tasks' = AddTask(error, background_tasks,
                 [func |-> "anomaly_detector.detect_anomalies",
                  arg |-> result,
                  for_request |-> Len(ingest_requests) + 1])
    /\ UNCHANGED <<commit_analyses, trace_analyses, predictions_total>>
    /\ UNCHANGED <<enabled, dry_run, now>>
    /\ UNCHANGED healVars
    /\ UNCHANGED <<modelVars, observerVars>>

\* POST /api/v1/analyze/traces
AnalyzeTraces(traces, storage) ==
    /\ Len(ingest_requests) < MaxIngest
    /\ LET result == analyze_traces(traces, now)
           error == IngestError(result, TraceAnalysisKeys, storage)
       IN /\ ingest_requests' =
                 Append(ingest_requests, IngestRecord("traces", traces, result, error))
          /\ IF error /= None
             THEN UNCHANGED trace_analyses
             ELSE /\ trace_analyses' = InsertAnalysis(trace_analyses,
                         AnalysisRow(result, TraceAnalysisKeys, [performance_issues |-> <<>>]),
                         now)
          /\ background_tasks' = AddTask(error, background_tasks,
                 [func |-> "performance_predictor.predict",
                  arg |-> result,
                  for_request |-> Len(ingest_requests) + 1])
    /\ UNCHANGED <<commit_analyses, log_analyses, predictions_total>>
    /\ UNCHANGED <<enabled, dry_run, now>>
    /\ UNCHANGED healVars
    /\ UNCHANGED <<modelVars, observerVars>>

NextIngest ==
    \/ Tick
    \/ \E input \in CommitInputs, storage \in StorageOutcomes :
          AnalyzeCommit(input, storage)
    \/ \E logs \in LogBatches, storage \in StorageOutcomes :
          AnalyzeLogs(logs, storage)
    \/ \E traces \in TraceBatches, storage \in StorageOutcomes :
          AnalyzeTraces(traces, storage)

SpecIngest == Init /\ [][NextIngest]_vars

(***************************************************************************)
(* trigger_training, the train tasks it schedules, and the detection       *)
(* models' predict calls                                                   *)
(***************************************************************************)
\* str(HTTPException(status_code=400, detail=...)) is "400: " + detail
UnknownModelType(model_type) == "400: Unknown model type: " \o model_type

\* the train tasks the if/elif chain of trigger_training adds
TasksToAdd(model_type) ==
    IF model_type \in {"breaking_change", "anomaly", "performance"}
    THEN <<model_type>>
    ELSE <<>>

\* the else branch raises HTTPException(400), and except Exception catches
\* it and raises HTTPException(500, detail=str(e)) in its place
TrainingResponse(model_type, t) ==
    IF TasksToAdd(model_type) = <<>>
    THEN HTTP500(UnknownModelType(model_type))
    ELSE [status_code |-> 200,
          body |-> [status |-> "training_started",
                    model_type |-> model_type,
                    timestamp |-> t]]

\* POST /api/v1/train
TriggerTraining(model_type) ==
    /\ Len(train_requests) < MaxTrainRequests
    /\ train_requests' = Append(train_requests,
           [model_type |-> model_type,
            scheduled |-> TasksToAdd(model_type),
            response |-> TrainingResponse(model_type, now)])
    /\ train_tasks' = train_tasks \o
           [i \in 1..Len(TasksToAdd(model_type)) |->
               [model_type |-> TasksToAdd(model_type)[i],
                for_request |-> Len(train_requests) + 1]]
    /\ UNCHANGED <<detectors, last_prediction>>
    /\ UNCHANGED <<enabled, dry_run, now>>
    /\ UNCHANGED <<healVars, ingestVars, observerVars>>

\* a scheduled train task runs, after the response of its request was sent;
\* train has no await, so it runs as one step
RunTrainTask(i) ==
    /\ i \in 1..Len(train_tasks)
    /\ detectors' = [detectors EXCEPT
           ![train_tasks[i].model_type] = train(@, now)]
    /\ train_tasks' = [j \in 1..(Len(train_tasks) - 1) |->
           IF j < i THEN train_tasks[j] ELSE train_tasks[j + 1]]
    /\ UNCHANGED <<train_requests, last_prediction>>
    /\ UNCHANGED <<enabled, dry_run, now>>
    /\ UNCHANGED <<healVars, ingestVars, observerVars>>

\* the record kept of one predict call: the model as the call read it, and
\* the dict the call returned
PredictionRecord(model_type, result) ==
    [model |-> model_type, self |-> detectors[model_type], result |-> result]

\* await app.state.breaking_change_detector.predict(commit_analysis)
PredictBreakingChange(probability) ==
    /\ last_prediction' = PredictionRecord("breaking_change",
           BreakingChangeDetector_predict(detectors["breaking_change"],
               analyze_commit("org/repo", "abc123", now), probability, now))
    /\ UNCHANGED <<detectors, train_requests, train_tasks>>
    /\ UNCHANGED <<enabled, dry_run, now>>
    /\ UNCHANGED <<healVars, ingestVars, observerVars>>

\* await app.state.anomaly_detector.detect_anomalies(log_analysis)
DetectAnomalies(anomaly_score) ==
    /\ last_prediction' = PredictionRecord("anomaly",
           AnomalyDetector_detect_anomalies(detectors["anomaly"],
               analyze_logs(<<>>, now), anomaly_score, now))
    /\ UNCHANGED <<detectors, train_requests, train_tasks>>
    /\ UNCHANGED <<enabled, dry_run, now>>
    /\ UNCHANGED <<healVars, ingestVars, observerVars>>

\* await app.state.performance_predictor.predict(trace_analysis)
PredictPerformance(predicted_degradation) ==
    /\ last_prediction' = PredictionRecord("performance",
           PerformancePredictor_predict(detectors["performance"],
               analyze_traces(<<>>, now), predicted_degradation, now))
    /\ UNCHANGED <<detectors, train_requests, train_tasks>>
    /\ UNCHANGED <<enabled, dry_run, now>>
    /\ UNCHANGED <<healVars, ingestVars, observerVars>>

NextModels ==
    \/ Tick
    \/ \E model_type \in ModelTypeInputs : TriggerTraining(model_type)
    \/ \E i \in 1..MaxTrainRequests : RunTrainTask(i)
    \/ \E probability \in UniformScores : PredictBreakingChange(probability)
    \/ \E anomaly_score \in UniformScores : DetectAnomalies(anomaly_score)
    \/ \E predicted_degradation \in HalfUniformScores :
          PredictPerformance(predicted_degradation)

SpecModels == Init /\ [][NextModels]_vars

(***************************************************************************)
(* TraceAnalyzer.analyze_traces called on a list of dicts                  *)
(***************************************************************************)
\* a span is a dict; "duration_ms" may be absent
SpanInputs ==
    [service : {"api-gateway"}, duration_ms : DurationInputs]
        \cup {[service |-> "api-gateway"]}

\* the batch [100, 200, 300, 400, 5000]
ScenarioTraces ==
    [i \in 1..5 |->
        [service |-> "api-gateway",
         duration_ms |-> <<100, 200, 300, 400, 5000>>[i]]]

AnalyzerBatches == SeqUpTo(SpanInputs, MaxBatch) \cup {ScenarioTraces}

\* await analyzer.analyze_traces(traces)
CallAnalyzeTraces(traces) ==
    /\ last_analysis' = [kind |-> "traces",
                         input |-> traces,
                         called_at |-> now,
                         result |-> analyze_traces(traces, now)]
    /\ UNCHANGED <<enabled, dry_run, now, last_view>>
    /\ UNCHANGED <<healVars, ingestVars, modelVars>>

NextAnalyze ==
    \/ Tick
    \/ \E traces \in AnalyzerBatches : CallAnalyzeTraces(traces)

SpecAnalyze == Init /\ [][NextAnalyze]_vars

(***************************************************************************)
(* Status views: commit-status, self-healing-status, logs-status,          *)
(* traces-status, platform-overview.  A NULL column is an absent field of  *)
(* the row.  Rates are in thousandths, percentages and latencies of the    *)
(* payloads in hundredths.                                                 *)
(***************************************************************************)
\* the orders in which ORDER BY created_at DESC can return the rows of a table
OrderByCreatedAtDesc(table) ==
    LET n == Len(table)
        orders == {p \in [1..n -> 1..n] :
                     /\ \A i, j \in 1..n : i /= j => p[i] /= p[j]
                     /\ \A i, j \in 1..n :
                           i < j => table[p[i]].created_at >= table[p[j]].created_at}
    IN {[i \in 1..n |-> table[p[i]]] : p \in orders}

\* .limit(k), and the slice rows[:k]
Limit(rows, k) == SubSeq(rows, 1, IF Len(rows) < k THEN Len(rows) ELSE k)

RECURSIVE SumColumn(_, _)
\* sum(a.column or 0 for a in rows)
SumColumn(rows, column) ==
    IF rows = <<>> THEN 0
    ELSE RecGet(rows[1], column, 0) + SumColumn(Tail(rows), column)

RECURSIVE MaxColumn(_, _)
\* max((a.column or 0 for a in rows), default=0)
MaxColumn(rows, column) ==
    IF rows = <<>> THEN 0
    ELSE LET head == RecGet(rows[1], column, 0)
             rest == MaxColumn(Tail(rows), column)
         IN IF head > rest THEN head ELSE rest

\* the number of dicts h of a list with h[key] == value
CountWhere(history, key, value) ==
    Cardinality({i \in 1..Len(history) : history[i][key] = value})

\* get_commit_status: latest is the result of scalar_one_or_none(), a
\* sequence of at most one row
get_commit_status(latest, t) ==
    IF latest /= <<>>
    THEN LET latest_commit == latest[1]
         IN [should_commit |-> RecGet(latest_commit, "should_commit", TRUE),
             recommendation |-> RecGet(latest_commit, "recommendation", "Analysis completed"),
             confidence |-> RecGet(latest_commit, "confidence", 92),
             reasons |->
                 IF RecGet(latest_commit, "reasons", <<>>) /= <<>>
                 THEN latest_commit.reasons
                 ELSE <<"Code quality score is good (85%)",
                        "Test coverage is 78% (target: 80%)">>,
             issues |-> RecGet(latest_commit, "issues", <<>>),
             metrics |->
                 [code_quality_score |-> RecGet(latest_commit, "code_quality_score", 85),
                  test_coverage |-> RecGet(latest_commit, "test_coverage", 78),
                  breaking_changes |-> RecGet(latest_commit, "breaking_changes", 0),
                  files_analyzed |-> RecGet(latest_commit, "changed_files", 0)],
             timestamp |-> latest_commit.created_at]
    ELSE [should_commit |-> TRUE,
          recommendation |-> "Safe to commit",
          confidence |-> 92,
          reasons |-> <<"Code quality score is good (85%)",
                        "Test coverage is 78% (target: 80%)">>,
          issues |-> <<[type |-> "testing",
                        severity |-> "low",
                        message |-> "Test coverage: 78%",
                        details |-> "Consider adding more tests"]>>,
          metrics |-> [code_quality_score |-> 85,
                       test_coverage |-> 78,
                       breaking_changes |-> 0,
                       files_analyzed |-> 0],
          timestamp |-> t]

\* the healing_history entry of one row
HealingHistoryEntry(action) ==
    [id |-> action.action_id,
     issue_type |-> action.issue_type,
     status |-> action.status,
     action_taken |-> action.action_taken,
     service |-> action.service,
     timestamp |-> action.created_at,
     success |-> action.success]

\* the healing_history used when the table has no rows
DefaultHealingHistory ==
    <<[id |-> "heal-001", issue_type |-> "memory_leak", status |-> "completed",
       action_taken |-> "Restarted service with optimized memory settings",
       service |-> "api-gateway", timestamp |-> "2025-11-15T10:30:00Z",
       success |-> "True"],
      [id |-> "heal-002", issue_type |-> "slow_query", status |-> "completed",
       action_taken |-> "Added database index for frequently queried field",
       service |-> "user-service", timestamp |-> "2025-11-15T11:15:00Z",
       success |-> "True"],
      [id |-> "heal-003", issue_type |-> "connection_timeout", status |-> "in_progress",
       action_taken |-> "Increasing connection pool size",
       service |-> "data-collector", timestamp |-> "2025-11-15T13:20:00Z",
       success |-> None]>>

\* get_self_healing_status: actions are the rows of the query; success_rate
\* is kept as the fraction it is computed from
get_self_healing_status(actions, t) ==
    LET from_rows == [i \in 1..Len(actions) |-> HealingHistoryEntry(actions[i])]
        healing_history == IF from_rows = <<>> THEN DefaultHealingHistory ELSE from_rows
        total_actions == Len(healing_history)
        successful_actions == CountWhere(healing_history, "success", "True")
        failed_actions == CountWhere(healing_history, "success", "False")
        in_progress == CountWhere(healing_history, "status", "in_progress")
    IN [status |-> "active",
        health |-> "good",
        statistics |->
            [total_healing_actions |-> total_actions,
             successful_actions |-> successful_actions,
             failed_actions |-> failed_actions,
             in_progress |-> in_progress,
             success_rate |->
                 IF total_actions > 0
                 THEN [numerator |-> successful_actions * 100, denominator |-> total_actions]
                 ELSE [numerator |-> 100, denominator |-> 1]],
        recent_actions |-> healing_history,
        active_monitors |-> <<[type |-> "memory", status |-> "monitoring"],
                              [type |-> "performance", status |-> "monitoring"],
                              [type |-> "errors", status |-> "monitoring"],
                              [type |-> "connectivity", status |-> "monitoring"]>>,
        timestamp |-> t]

\* the health band of logs-status, with >= in place of > at both thresholds
LogHealth_Inclusive(current_error_rate) ==
    IF current_error_rate >= 100 THEN "critical"
    ELSE IF current_error_rate >= 50 THEN "warning"
    ELSE "healthy"

\* if current_error_rate > 0.1 ... elif current_error_rate > 0.05 ... else
LogHealth(current_error_rate) ==
    IF current_error_rate > 100 THEN "critical"
    ELSE IF current_error_rate > 50 THEN "warning"
    ELSE "healthy"

LogHealthMessage(health) ==
    IF health = "critical" THEN "High error rate detected"
    ELSE IF health = "warning" THEN "Elevated error rate"
    ELSE "Error rates normal"

\* the recent_patterns entries of the rows given
LogPatterns(rows) ==
    LET with_errors == SelectSeq(rows, LAMBDA a : RecGet(a, "error_count", 0) > 0)
    IN [i \in 1..Len(with_errors) |->
           [type |-> "errors",
            count |-> with_errors[i].error_count,
            timestamp |-> with_errors[i].created_at]]

TopServices ==
    <<[name |-> "api-gateway", error_count |-> 89],
      [name |-> "user-service", error_count |-> 67],
      [name |-> "data-collector", error_count |-> 45],
      [name |-> "intelligence-engine", error_count |-> 33]>>

\* get_logs_status: analyses are the rows of the query, latest first
get_logs_status(analyses, t) ==
    LET has_data == analyses /= <<>>
        current_error_rate ==
            IF has_data THEN RecGet(analyses[1], "error_rate", 0) ELSE 0
        health == IF has_data THEN LogHealth(current_error_rate) ELSE "healthy"
    IN [status |-> "active",
        health |-> health,
        health_message |-> LogHealthMessage(health),
        statistics |->
            IF has_data
            THEN [total_logs_analyzed |-> SumColumn(analyses, "log_count"),
                  total_errors |-> SumColumn(analyses, "error_count"),
                  total_warnings |-> SumColumn(analyses, "warning_count"),
                  anomalies_detected |-> SumColumn(analyses, "anomalies_detected"),
                  avg_error_rate |->
                      RoundHalfEven(10 * SumColumn(analyses, "error_rate"), Len(analyses)),
                  current_error_rate |-> 10 * current_error_rate]
            ELSE [total_logs_analyzed |-> 15847,
                  total_errors |-> 234,
                  total_warnings |-> 1456,
                  anomalies_detected |-> 12,
                  avg_error_rate |-> 148,
                  current_error_rate |-> 156],
        recent_patterns |->
            IF has_data
            THEN Limit(LogPatterns(Limit(analyses, 5)), 10)
            ELSE <<[type |-> "connection_timeout", count |-> 45, severity |-> "medium"],
                   [type |-> "authentication_failure", count |-> 23, severity |-> "high"],
                   [type |-> "rate_limit_exceeded", count |-> 67, severity |-> "low"]>>,
        top_services |-> TopServices,
        timestamp |-> t]

\* if current_avg_latency > 1000 ... elif current_avg_latency > 500 ... else
TraceHealth(current_avg_latency) ==
    IF current_avg_latency > 1000 THEN "critical"
    ELSE IF current_avg_latency > 500 THEN "warning"
    ELSE "healthy"

TraceHealthMessage(health) ==
    IF health = "critical" THEN "High latency detected"
    ELSE IF health = "warning" THEN "Elevated latency"
    ELSE "Performance optimal"

\* the performance_issues entries of the rows given
PerformanceIssues(rows) ==
    LET slow == SelectSeq(rows, LAMBDA a : RecGet(a, "slow_traces", 0) > 0)
    IN [i \in 1..Len(slow) |->
           [type |-> "slow_traces",
            count |-> slow[i].slow_traces,
            avg_duration |-> RecGet(slow[i], "avg_duration_ms", None)]]

TopSlowServices ==
    <<[name |-> "data-collector", avg_latency |-> 23450, count |-> 1234],
      [name |-> "intelligence-engine", avg_latency |-> 18930, count |-> 2145],
      [name |-> "api-gateway", avg_latency |-> 8760, count |-> 3567]>>

\* get_traces_status: analyses are the rows of the query, latest first
get_traces_status(analyses, t) ==
    LET has_data == analyses /= <<>>
        total_traces == IF has_data THEN SumColumn(analyses, "trace_count") ELSE 8924
        total_slow_traces == IF has_data THEN SumColumn(analyses, "slow_traces") ELSE 127
        current_avg_latency ==
            IF has_data THEN RecGet(analyses[1], "avg_duration_ms", 0) ELSE 0
        health == IF has_data THEN TraceHealth(current_avg_latency) ELSE "healthy"
    IN [status |-> "active",
        health |-> health,
        health_message |-> TraceHealthMessage(health),
        statistics |->
            [total_traces_analyzed |-> total_traces,
             avg_latency_ms |->
                 IF has_data
                 THEN RoundHalfEven(100 * SumColumn(analyses, "avg_duration_ms"),
                                    Len(analyses))
                 ELSE 14560,
             max_latency_ms |->
                 IF has_data THEN 100 * MaxColumn(analyses, "max_duration_ms") ELSE 234580,
             slow_traces |-> total_slow_traces,
             slow_trace_percentage |->
                 IF total_traces > 0
                 THEN RoundHalfEven(10000 * total_slow_traces, total_traces)
                 ELSE 0],
        performance_issues |->
            IF has_data
            THEN Limit(PerformanceIssues(Limit(analyses, 5)), 10)
            ELSE <<[endpoint |-> "/api/v1/analyze/logs", avg_latency |-> 23450, p95 |-> 45670],
                   [endpoint |-> "/api/v1/analyze/traces", avg_latency |-> 18930, p95 |-> 37820],
                   [endpoint |-> "/api/v1/analyze/commit", avg_latency |-> 16780, p95 |-> 29840]>>,
        top_slow_services |-> TopSlowServices,
        timestamp |-> t]

\* health_score of platform-overview
HealthScore(latest_log, latest_trace, total_issues) ==
    100
    - (IF latest_log /= <<>> /\ RecGet(latest_log[1], "error_rate", 0) > 100
       THEN 30 ELSE 0)
    - (IF latest_trace /= <<>> /\ RecGet(latest_trace[1], "avg_duration_ms", 0) > 500
       THEN 20 ELSE 0)
    - (IF total_issues > 10 THEN 20 ELSE 0)

\* get_platform_overview: the four counts and the three latest rows, each a
\* sequence of at most one row
get_platform_overview(commit_count, log_count, trace_count, healing_count, latest_commit, latest_log, latest_trace, t) ==
    LET total_issues ==
            (IF latest_commit /= <<>>
             THEN Len(RecGet(latest_commit[1], "issues", <<>>)) ELSE 0)
            + (IF latest_log /= <<>>
               THEN RecGet(latest_log[1], "error_count", 0)
                    + RecGet(latest_log[1], "anomalies_detected", 0)
               ELSE 0)
        health_score == HealthScore(latest_log, latest_trace, total_issues)
    IN [health |->
            IF health_score >= 80 THEN "excellent"
            ELSE IF health_score >= 60 THEN "good"
            ELSE IF health_score >= 40 THEN "fair"
            ELSE "poor",
        health_score |-> IF health_score < 0 THEN 0 ELSE health_score,
        metrics |-> [commits_analyzed |-> commit_count,
                     logs_analyzed |-> log_count,
                     traces_analyzed |-> trace_count,
                     healing_actions |-> healing_count,
                     total_issues |-> total_issues,
                     active_services |-> 4],
        timestamp |-> t]

\* the record kept of one served view: its name, the rows its queries
\* returned, and the payload it answered (status 200)
ViewRecord(view, rows, body) ==
    [view |-> view, rows |-> rows, response |-> [status_code |-> 200, body |-> body]]

\* the frame of a status view: its session commits nothing and is closed
ViewFrame ==
    /\ UNCHANGED <<enabled, dry_run, now, last_analysis>>
    /\ UNCHANGED <<healVars, ingestVars, modelVars>>

\* GET /api/v1/commit-status
CommitStatus ==
    /\ \E rows \in OrderByCreatedAtDesc(commit_analyses) :
          last_view' = ViewRecord("commit-status", Limit(rows, 1),
                                  get_commit_status(Limit(rows, 1), now))
    /\ ViewFrame

\* GET /api/v1/self-healing-status
SelfHealingStatus ==
    /\ \E rows \in OrderByCreatedAtDesc(healing_actions) :
          last_view' = ViewRecord("self-healing-status", Limit(rows, 10),
                                  get_self_healing_status(Limit(rows, 10), now))
    /\ ViewFrame

\* GET /api/v1/logs-status
LogsStatus ==
    /\ \E rows \in OrderByCreatedAtDesc(log_analyses) :
          last_view' = ViewRecord("logs-status", Limit(rows, 100),
                                  get_logs_status(Limit(rows, 100), now))
    /\ ViewFrame

\* GET /api/v1/traces-status
TracesStatus ==
    /\ \E rows \in OrderByCreatedAtDesc(trace_analyses) :
          last_view' = ViewRecord("traces-status", Limit(rows, 100),
                                  get_traces_status(Limit(rows, 100), now))
    /\ ViewFrame

\* GET /api/v1/platform-overview
PlatformOverview ==
    /\ \E commits \in OrderByCreatedAtDesc(commit_analyses),
          logs \in OrderByCreatedAtDesc(log_analyses),
          traces \in OrderByCreatedAtDesc(trace_analyses) :
          last_view' = ViewRecord("platform-overview",
              <<Limit(commits, 1), Limit(logs, 1), Limit(traces, 1)>>,
              get_platform_overview(Len(commit_analyses), Len(log_analyses),
                  Len(trace_analyses), Len(healing_actions),
                  Limit(commits, 1), Limit(logs, 1), Limit(traces, 1), now))
    /\ ViewFrame

(***************************************************************************)
(* The views over a store that holds rows when the application starts: the *)
(* database outlives the process.                                          *)
(***************************************************************************)
\* created_at of rows stored before the application started
PastInstants == {-2, -1}

\* error_rate of a stored LogAnalysis row: NULL, or a rate in thousandths
ErrorRateInputs == {50, 51, 100, 101}

\* avg_duration_ms of a stored TraceAnalysis row: NULL, or a latency in ms
AvgDurationInputs == {500, 501, 1000, 1001}

LogRowInputs ==
    LET columns == [log_count |-> 10, error_count |-> 1, warning_count |-> 2,
                    anomalies_detected |-> 0]
    IN {columns @@ [created_at |-> at] : at \in PastInstants}
       \cup {columns @@ [created_at |-> at, error_rate |-> rate] :
                 at \in PastInstants, rate \in ErrorRateInputs}

TraceRowInputs ==
    LET columns == [trace_count |-> 10, max_duration_ms |-> 5000, slow_traces |-> 1]
    IN {columns @@ [created_at |-> at] : at \in PastInstants}
       \cup {columns @@ [created_at |-> at, avg_duration_ms |-> avg] :
                 at \in PastInstants, avg \in AvgDurationInputs}

\* a CommitAnalysis row as analyze_commit fills its columns
CommitRowInputs ==
    {[repository |-> "org/repo", commit_hash |-> "abc123", changed_files |-> 3,
      should_commit |-> TRUE, code_quality_score |-> 85, test_coverage |-> 78,
      breaking_changes |-> 0, confidence |-> 92,
      recommendation |-> "Analysis completed", reasons |-> <<>>, issues |-> <<>>,
      created_at |-> at] : at \in PastInstants}

\* a HealingAction row as trigger_healing fills its columns
HealingRowInputs ==
    {NewHealingAction("heal-past", "connection_timeout", {}, [status |-> "success"])
        @@ [created_at |-> at, updated_at |-> at] : at \in PastInstants}

\* the rows of a table with their primary keys, in the order of insertion
WithIds(rows) == [i \in 1..Len(rows) |-> [id |-> i] @@ rows[i]]

\* stores with history in one of the four tables, and the empty store
EmptyStore == [commits |-> <<>>, logs |-> <<>>, traces |-> <<>>, healing |-> <<>>]

StoredHistories ==
    {[EmptyStore EXCEPT !.logs = WithIds(rows)] : rows \in SeqUpTo(LogRowInputs, MaxRows)}
    \cup {[EmptyStore EXCEPT !.traces = WithIds(rows)] :
              rows \in SeqUpTo(TraceRowInputs, MaxRows)}
    \cup {[EmptyStore EXCEPT !.commits = WithIds(rows)] :
              rows \in SeqUpTo(CommitRowInputs, 1)}
    \cup {[EmptyStore EXCEPT !.healing = WithIds(rows)] :
              rows \in SeqUpTo(HealingRowInputs, 1)}

\* the application has started over one of the stores given; the flags are
\* those of the default settings
StartedOver(stores) ==
    /\ enabled = TRUE
    /\ dry_run = FALSE
    /\ now = 0
    /\ requests = <<>>
    /\ healing_actions_total = [l \in {} |-> 0]
    /\ ingest_requests = <<>>
    /\ background_tasks = <<>>
    /\ predictions_total = [l \in {} |-> 0]
    /\ last_analysis = NoAnalysis
    /\ detectors = Detectors
    /\ train_requests = <<>>
    /\ train_tasks = <<>>
    /\ last_prediction = NoPrediction
    /\ last_view = NoView
    /\ \E store \in stores :
          /\ commit_analyses = store.commits
          /\ log_analyses = store.logs
          /\ trace_analyses = store.traces
          /\ healing_actions = store.healing

InitStatus == StartedOver(StoredHistories)

NextStatus ==
    \/ Tick
    \/ CommitStatus
    \/ SelfHealingStatus
    \/ LogsStatus
    \/ TracesStatus
    \/ PlatformOverview

SpecStatus == InitStatus /\ [][NextStatus]_vars

(***************************************************************************)
(* Every operation that opens a session on the store: the heal request,    *)
(* the three ingestion requests and the five views, over the empty store   *)
(* and over a store with a row in each table, within one instant of the    *)
(* clock.                                                                  *)
(***************************************************************************)
\* the store with one row in each table, stored at the latest past instant
FullStore ==
    [commits |-> WithIds(<<CHOOSE row \in CommitRowInputs : row.created_at = -1>>),
     logs |-> WithIds(<<CHOOSE row \in LogRowInputs :
                 row.created_at = -1 /\ RecGet(row, "error_rate", 0) = 101>>),
     traces |-> WithIds(<<CHOOSE row \in TraceRowInputs :
                 row.created_at = -1 /\ RecGet(row, "avg_duration_ms", 0) = 1001>>),
     healing |-> WithIds(<<CHOOSE row \in HealingRowInputs : row.created_at = -1>>)]

InitStore == StartedOver({EmptyStore, FullStore})

NextStore ==
    \/ \E issue_type \in IssueTypeInputs :
          TriggerHealingBegin(issue_type, {}, NoFault)
    \/ \E r \in 1..MaxRequests, storage \in StorageOutcomes :
          TriggerHealingCommit(r, storage)
    \/ \E input \in CommitInputs : AnalyzeCommit(input, "ok")
    \/ AnalyzeLogs(<<>>, "ok")
    \/ AnalyzeTraces(<<>>, "ok")
    \/ CommitStatus
    \/ SelfHealingStatus
    \/ LogsStatus
    \/ TracesStatus
    \/ PlatformOverview

SpecStore == InitStore /\ [][NextStore]_vars

(***************************************************************************)
(* Vocabulary of the properties                                            *)
(***************************************************************************)
Received == 1..Len(requests)
Rows == 1..Len(healing_actions)

\* the handler has answered, with 200 or with 500
Finished(r) == requests[r].pc \in {"done", "failed"}

\* heal reached the strategy call for this request
StrategyCalled(r) ==
    enabled /\ ~dry_run /\ requests[r].issue_type \in healing_strategies

ServiceOf(r) == DictGet(requests[r].context, "service", "unknown")

\* request r finishes in this step
Finishes(r) == requests[r].pc = "commit" /\ requests'[r].pc /= "commit"

\* the lifecycle order named in db_models.py: pending, in_progress, completed, failed
StatusRank(status) ==
    CASE status = "pending" -> 0
      [] status = "in_progress" -> 1
      [] status \in {"completed", "failed"} -> 2

TerminalStatuses == {"completed", "failed"}

HealStatuses == {"disabled", "unknown_issue", "dry_run", "success", "error"}

(***************************************************************************)
(* Properties                                                              *)
(***************************************************************************)

\* C1: a heal request with healing enabled, dry-run off, a registered
\* issue_type and a strategy that returns normally ends with a persisted
\* HealingAction of status completed and success true.
C1_SuccessfulHealIsCompleted ==
    \A r \in Received :
        (requests[r].pc = "done" /\ StrategyCalled(r) /\ requests[r].fault = NoFault)
        => \E i \in Rows :
              /\ healing_actions[i].action_id = requests[r].action_id
              /\ healing_actions[i].status = "completed"
              /\ healing_actions[i].success = "True"

\* C2: a heal request with healing enabled, dry-run off and a registered
\* issue_type whose strategy raises ends with a persisted HealingAction of
\* status failed, success false and an error_message.
C2_FailedHealIsFailed ==
    \A r \in Received :
        (requests[r].pc = "done" /\ StrategyCalled(r) /\ requests[r].fault /= NoFault)
        => \E i \in Rows :
              /\ healing_actions[i].action_id = requests[r].action_id
              /\ healing_actions[i].status = "failed"
              /\ healing_actions[i].success = "False"
              /\ healing_actions[i].error_message /= None

\* C3: SelfHealer.heal never propagates an exception: for every issue_type,
\* context, flag setting and strategy behaviour it returns a result object
\* that carries a status.
C3_HealAlwaysReturns ==
    \A r \in Received :
        /\ requests[r].outcome.kind = "return"
        /\ "status" \in DOMAIN requests[r].outcome.value
        /\ requests[r].outcome.value.status \in HealStatuses

\* a strategy raised and heal returned the error result
C3_Witness ==
    \E r \in Received :
        /\ StrategyCalled(r)
        /\ requests[r].fault /= NoFault
        /\ requests[r].outcome.kind = "return"
        /\ requests[r].outcome.value.status = "error"

\* C4: with healing enabled, a request whose issue_type is not registered
\* gets the unknown_issue outcome and leaves the number of stored
\* HealingAction rows unchanged.
C4_UnknownIssueCreatesNoAction ==
    [][\A r \in Received :
          (enabled /\ requests[r].issue_type \notin healing_strategies)
          => /\ requests[r].outcome.value.status = "unknown_issue"
             /\ Finishes(r) => Len(healing_actions') = Len(healing_actions)]_vars

\* C5: with healing enabled and dry-run on, a request for a registered
\* issue_type gets the dry_run outcome and leaves the number of stored
\* HealingAction rows unchanged.
C5_DryRunCreatesNoAction ==
    [][\A r \in Received :
          (enabled /\ dry_run /\ requests[r].issue_type \in healing_strategies)
          => /\ requests[r].outcome.value.status = "dry_run"
             /\ Finishes(r) => Len(healing_actions') = Len(healing_actions)]_vars

\* C6: with the enable flag off, every request gets the disabled outcome and
\* no HealingAction is persisted.
C6_DisabledCreatesNoAction ==
    ~enabled =>
        /\ \A r \in Received : requests[r].outcome.value.status = "disabled"
        /\ healing_actions = <<>>

\* C7: two heal requests for the same issue_type and service that are
\* handled concurrently both succeed and leave two distinct HealingAction
\* rows; neither fails because of the other.
C7_ConcurrentHealsBothStored ==
    \A r1 \in Received : \A r2 \in requests[r1].overlaps :
        ( /\ Finished(r1) /\ Finished(r2)
          /\ StrategyCalled(r1) /\ StrategyCalled(r2)
          /\ requests[r1].fault = NoFault /\ requests[r2].fault = NoFault
          /\ requests[r1].issue_type = requests[r2].issue_type
          /\ ServiceOf(r1) = ServiceOf(r2)
          /\ \A r \in {r1, r2} :
                requests[r].pc = "failed" => requests[r].response.detail = "IntegrityError" )
        => /\ requests[r1].pc = "done"
           /\ requests[r2].pc = "done"
           /\ \E i, j \in Rows :
                 /\ i /= j
                 /\ healing_actions[i].action_id = requests[r1].action_id
                 /\ healing_actions[j].action_id = requests[r2].action_id

\* C8: no two stored HealingActions share an action_id, and an action_id
\* generated for one request is never generated again for a later one.
C8_ActionIdNeverReused ==
    /\ \A i, j \in Rows :
          i /= j => healing_actions[i].action_id /= healing_actions[j].action_id
    /\ \A r1, r2 \in Received :
          r1 /= r2 => requests[r1].action_id /= requests[r2].action_id

\* C9: every stored HealingAction has success non-null exactly when its
\* status is completed or failed.
C9_SuccessIffTerminal ==
    \A i \in Rows :
        (healing_actions[i].success /= None)
        <=> (healing_actions[i].status \in TerminalStatuses)

\* a stored action in progress, its success null
C9_Witness ==
    \E i \in Rows :
        /\ healing_actions[i].status = "in_progress"
        /\ healing_actions[i].success = None

\* C10: a stored HealingAction's status only moves forward, a terminal
\* status never changes, and a heal that is stored adds a new row and leaves
\* the existing rows as they are.
C10_StatusForwardOnly ==
    [][/\ Len(healing_actions') >= Len(healing_actions)
       /\ \A i \in Rows :
             /\ healing_actions'[i].id = healing_actions[i].id
             /\ healing_actions'[i].action_id = healing_actions[i].action_id
             /\ StatusRank(healing_actions'[i].status) >= StatusRank(healing_actions[i].status)
             /\ healing_actions[i].status \in TerminalStatuses
                   => healing_actions'[i].status = healing_actions[i].status
       /\ \A r \in Received :
             (Finishes(r) /\ requests'[r].pc = "done")
             => /\ Len(healing_actions') = Len(healing_actions) + 1
                /\ healing_actions'[Len(healing_actions')].action_id = requests[r].action_id
      ]_vars

\* a later heal for the same issue and service was stored next to the earlier one
C10_Witness ==
    \E i, j \in Rows :
        /\ i < j
        /\ healing_actions[i].issue_type = healing_actions[j].issue_type
        /\ healing_actions[i].service = healing_actions[j].service
        /\ healing_actions[i].action_id /= healing_actions[j].action_id
        /\ healing_actions[i].status = "in_progress"

\* C14: when the persistence call of a heal request fails the caller gets a
\* failed operation and the session is rolled back and closed; a success
\* result implies that the request's row was committed.
C14_StorageFailureSurfaced ==
    \A r \in Received :
        /\ (Finished(r) /\ requests[r].commit_error /= None)
           => /\ requests[r].response.status_code = 500
              /\ requests[r].response.detail = requests[r].commit_error
              /\ requests[r].session = "rolled_back_closed"
        /\ requests[r].response.status_code = 200
           => /\ requests[r].session = "committed_closed"
              /\ \E i \in Rows :
                    /\ healing_actions[i].action_id = requests[r].action_id
                    /\ healing_actions[i].issue_type = requests[r].issue_type
                    /\ healing_actions[i].context = requests[r].context

\* the commit of a heal request failed in the store and the caller got 500
C14_Witness ==
    \E r \in Received :
        /\ requests[r].commit_error = "OperationalError"
        /\ requests[r].response.status_code = 500
        /\ requests[r].session = "rolled_back_closed"

\* outcomes of heal that are not a success
NonSuccessStatuses == {"error", "unknown_issue", "disabled"}

\* heal requests of one issue_type that were stored and whose outcome is in a set
DoneWith(issue_type, statuses) ==
    {r \in Received :
        /\ requests[r].pc = "done"
        /\ requests[r].issue_type = issue_type
        /\ requests[r].outcome.value.status \in statuses}

\* value of healing_actions_total{action_type, status}
CounterValue(action_type, status) ==
    IF <<action_type, status>> \in DOMAIN healing_actions_total
    THEN healing_actions_total[<<action_type, status>>]
    ELSE 0

\* C15: a heal request whose strategy errored, whose issue type was unknown
\* or whose subsystem was disabled is never reported, persisted or counted
\* under the status label success.
C15_FailureNeverCountedAsSuccess ==
    /\ \A r \in Received :
          (requests[r].pc = "done" /\ requests[r].outcome.value.status \in NonSuccessStatuses)
          => /\ requests[r].response.body.status /= "success"
             /\ \A i \in Rows :
                   healing_actions[i].action_id = requests[r].action_id
                   => healing_actions[i].success /= "True"
    /\ \A issue_type \in IssueTypeInputs :
          CounterValue(issue_type, "success")
             <= Cardinality(DoneWith(issue_type, HealStatuses \ NonSuccessStatuses))

\* the steps of a strategy written as one text
RECURSIVE JoinSteps(_, _)
JoinSteps(steps, sep) ==
    IF steps = <<>> THEN ""
    ELSE IF Len(steps) = 1 THEN steps[1]
    ELSE steps[1] \o sep \o JoinSteps(Tail(steps), sep)

StepSeparators == {", ", "; ", "\n"}

\* C16: for a heal that executes a strategy, the persisted action_taken is
\* built from the ordered steps the strategy returned.
C16_ActionTakenFromSteps ==
    \A r \in Received :
        (requests[r].pc = "done" /\ StrategyCalled(r) /\ requests[r].fault = NoFault)
        => \E i \in Rows :
              /\ healing_actions[i].action_id = requests[r].action_id
              /\ \E sep \in StepSeparators :
                    healing_actions[i].action_taken
                       = JoinSteps(requests[r].outcome.value.actions_taken, sep)

Ingested == 1..Len(ingest_requests)

AnalysisTable(kind) ==
    IF kind = "commit" THEN commit_analyses
    ELSE IF kind = "logs" THEN log_analyses
    ELSE trace_analyses

IngestKeys(kind) ==
    IF kind = "commit" THEN CommitAnalysisKeys
    ELSE IF kind = "logs" THEN LogAnalysisKeys
    ELSE TraceAnalysisKeys

TasksFor(r) == {i \in 1..Len(background_tasks) : background_tasks[i].for_request = r}

TasksOfKind(kind) ==
    {i \in 1..Len(background_tasks) :
        ingest_requests[background_tasks[i].for_request].kind = kind}

C13_WellFormedIngestSucceeds ==
    \A r \in Ingested :
        /\ ingest_requests[r].response.status_code = 200
        /\ FirstMissing(ingest_requests[r].result, IngestKeys(ingest_requests[r].kind)) = None
        /\ Len(AnalysisTable(ingest_requests[r].kind)) >= 1

LogRequests == {r \in Ingested : ingest_requests[r].kind = "logs"}

\* a field of the summary, at the top of the analyzer's result or under "summary"
HasSummaryField(result, key) ==
    \/ key \in DOMAIN result
    \/ key \in DOMAIN result.summary

SummaryField(result, key) ==
    IF key \in DOMAIN result THEN result[key] ELSE result.summary[key]

\* C18: the summary of every log batch has an error_rate; it is 0 for the empty
\* batch, and it is the ratio of an error_count that lies between 0 and the
\* number of entries.
C18_ErrorRateInUnitInterval ==
    \A r \in LogRequests :
        LET res == ingest_requests[r].result
            logs == ingest_requests[r].input
        IN /\ HasSummaryField(res, "error_rate")
           /\ HasSummaryField(res, "error_count")
           /\ SummaryField(res, "error_count") \in 0..Len(logs)
           /\ logs = <<>> => SummaryField(res, "error_rate") = 0

\* C19: error_count, warning_count and info_count of every log batch are the
\* numbers of entries of level ERROR, WARNING and INFO, each is at least 0 and
\* their sum is at most the number of entries.
C19_LevelCountsExact ==
    \A r \in LogRequests :
        LET res == ingest_requests[r].result
            logs == ingest_requests[r].input
        IN /\ \A key \in {"error_count", "warning_count", "info_count"} :
                 HasSummaryField(res, key)
           /\ SummaryField(res, "error_count") = CountLevel(logs, "ERROR")
           /\ SummaryField(res, "warning_count") = CountLevel(logs, "WARNING")
           /\ SummaryField(res, "info_count") = CountLevel(logs, "INFO")
           /\ SummaryField(res, "error_count") + SummaryField(res, "warning_count")
                 + SummaryField(res, "info_count") <= Len(logs)

\* the level with the highest count, ties going to ERROR, then WARNING, then INFO
DominantByPriority(logs) ==
    LET e == CountLevel(logs, "ERROR")
        w == CountLevel(logs, "WARNING")
        i == CountLevel(logs, "INFO")
    IN IF e >= w /\ e >= i THEN "error"
       ELSE IF w >= i THEN "warning"
       ELSE "info"

\* C20: the summary of every log batch has a dominant_level, the level with
\* the highest count, ties broken in the order error, warning, info.
C20_DominantLevelByPriority ==
    \A r \in LogRequests :
        LET res == ingest_requests[r].result
        IN /\ HasSummaryField(res, "dominant_level")
           /\ SummaryField(res, "dominant_level") = DominantByPriority(ingest_requests[r].input)

(***************************************************************************)
(* Trace summaries                                                         *)
(***************************************************************************)
TraceCall == last_analysis.kind = "traces"

\* the number of spans of at most / less than d ms
CountAtMost(traces, d) == Cardinality({i \in 1..Len(traces) : DurationOf(traces[i]) <= d})

CountBelow(traces, d) == Cardinality({i \in 1..Len(traces) : DurationOf(traces[i]) < d})

\* the k-th smallest duration of a non-empty batch, k in 1..Len(traces)
KthSmallest(traces, k) ==
    CHOOSE d \in {DurationOf(traces[i]) : i \in 1..Len(traces)} :
        CountBelow(traces, d) < k /\ CountAtMost(traces, d) >= k

MinDuration(traces) == KthSmallest(traces, 1)

MaxDuration(traces) == KthSmallest(traces, Len(traces))

\* twice the median: the middle duration, or the two middle ones, added up
TwiceMedian(traces) ==
    KthSmallest(traces, (Len(traces) + 1) \div 2)
        + KthSmallest(traces, (Len(traces) + 2) \div 2)

\* ceil(0.95 * n), kept within 1..n: the nearest rank of the 95th percentile
NearestRank95(n) ==
    LET rank == (95 * n + 99) \div 100
    IN IF rank < 1 THEN 1 ELSE IF rank > n THEN n ELSE rank

\* C21: the summary of every non-empty trace batch has a minimum and a maximum
\* duration with min <= avg <= max, and its p95 is at least the median.
\* (avg and p95 are in hundredths of a ms.)
C21_MinAvgMaxOrdered ==
    (TraceCall /\ last_analysis.input /= <<>>) =>
        LET res == last_analysis.result
            traces == last_analysis.input
        IN /\ HasSummaryField(res, "min_duration_ms")
           /\ HasSummaryField(res, "max_duration_ms")
           /\ 100 * SummaryField(res, "min_duration_ms") <= SummaryField(res, "avg_duration_ms")
           /\ SummaryField(res, "avg_duration_ms") <= 100 * SummaryField(res, "max_duration_ms")
           /\ 2 * SummaryField(res, "p95_duration_ms") >= 100 * TwiceMedian(traces)

\* C22: the p95 of a trace summary is the nearest-rank element of the batch,
\* the ceil(0.95 n)-th smallest duration: one of the input durations, at most
\* the maximum; it is 0 for the empty batch.  (p95 is in hundredths of a ms.)
C22_P95IsNearestRank ==
    TraceCall =>
        LET res == last_analysis.result
            traces == last_analysis.input
        IN /\ HasSummaryField(res, "p95_duration_ms")
           /\ traces = <<>> => SummaryField(res, "p95_duration_ms") = 0
           /\ traces /= <<>> =>
                 /\ SummaryField(res, "p95_duration_ms")
                       = 100 * KthSmallest(traces, NearestRank95(Len(traces)))
                 /\ SummaryField(res, "p95_duration_ms") <= 100 * MaxDuration(traces)

\* C23: slow_traces is the number of spans of more than 1000 ms (a span of
\* exactly 1000 ms or without a duration is not counted, one without a duration
\* adds 0 to the sum); avg_duration_ms is the sum over the count rounded to
\* hundredths; [100,200,300,400,5000] gives 1 and 1200.00; the empty batch
\* gives 0 and 0.
C23_SlowCountAndAverage ==
    TraceCall =>
        LET summary == last_analysis.result.summary
            traces == last_analysis.input
            n == Len(traces)
            withDuration == {i \in 1..n : "duration_ms" \in DOMAIN traces[i]}
            total == SumDurations(SelectSeq(traces, LAMBDA t : "duration_ms" \in DOMAIN t))
        IN /\ summary.slow_traces =
                 Cardinality({i \in withDuration : traces[i].duration_ms > 1000})
           /\ summary.slow_traces + CountAtMost(traces, 1000) = n
           /\ 2 * (summary.avg_duration_ms * n - 100 * total) <= n
           /\ 2 * (100 * total - summary.avg_duration_ms * n) <= n
           /\ traces = ScenarioTraces =>
                 summary.slow_traces = 1 /\ summary.avg_duration_ms = 120000
           /\ traces = <<>> =>
                 summary.slow_traces = 0 /\ summary.avg_duration_ms = 0

\* the scenario batch was analysed, and so was a batch holding a span of
\* exactly 1000 ms next to one without a duration
C23_Witness ==
    /\ TraceCall
    /\ \/ /\ last_analysis.input = ScenarioTraces
          /\ last_analysis.result.summary.slow_traces = 1
       \/ /\ Len(last_analysis.input) = 2
          /\ "duration_ms" \notin DOMAIN last_analysis.input[1]
          /\ DurationOf(last_analysis.input[2]) = 1000
          /\ last_analysis.result.summary.slow_traces = 0

\* C24: the summary an aggregator returns for a batch does not depend on when
\* it is called: aggregating the same batch at any other time gives the same
\* result, field for field (created_at is a column of the stored row, not a
\* field of the result).
C24_AggregationRepeatable ==
    \A r \in Ingested :
        \A t \in 0..MaxClock :
            LET req == ingest_requests[r]
            IN req.result =
                  IF req.kind = "commit"
                  THEN analyze_commit(req.input.repository, req.input.commit_hash, t)
                  ELSE IF req.kind = "logs" THEN analyze_logs(req.input, t)
                  ELSE analyze_traces(req.input, t)

(***************************************************************************)
(* Detection models and training                                           *)
(***************************************************************************)
Predicted == last_prediction.model /= "none"

\* the score, the verdict and the threshold a predict call returned
ScoreOf(model_type, result) ==
    IF model_type = "breaking_change" THEN result.probability_breaking
    ELSE IF model_type = "anomaly" THEN result.anomaly_score
    ELSE result.predicted_degradation

VerdictOf(model_type, result) ==
    IF model_type = "breaking_change" THEN result.is_breaking
    ELSE IF model_type = "anomaly" THEN result.has_anomaly
    ELSE result.at_risk

ThresholdOf(model_type, record) ==
    IF model_type = "performance" THEN record.degradation_threshold
    ELSE record.threshold

\* the threshold of the settings each model is constructed with
ConstructionThreshold(model_type) ==
    IF model_type = "breaking_change" THEN BREAKING_CHANGE_THRESHOLD
    ELSE IF model_type = "anomaly" THEN ANOMALY_THRESHOLD
    ELSE PERFORMANCE_DEGRADATION_THRESHOLD

\* C25: every predict call returns a verdict that is true exactly when its
\* score is >= the threshold, a score in [0,1] (0..1000 thousandths), and the
\* threshold the model was constructed with; no predict or train call changes
\* a model's threshold.
C25_VerdictIsScoreAtLeastThreshold ==
    /\ \A model_type \in DOMAIN detectors :
          ThresholdOf(model_type, detectors[model_type]) = ConstructionThreshold(model_type)
    /\ Predicted =>
          LET model_type == last_prediction.model
              result == last_prediction.result
          IN /\ VerdictOf(model_type, result)
                   <=> (ScoreOf(model_type, result) >= ConstructionThreshold(model_type))
             /\ ScoreOf(model_type, result) \in 0..1000
             /\ ThresholdOf(model_type, result) = ConstructionThreshold(model_type)

\* a trained model predicted a score equal to its threshold, and the verdict
\* was true
C25_Witness ==
    /\ Predicted
    /\ last_prediction.self.last_trained_at /= NotTrained
    /\ ScoreOf(last_prediction.model, last_prediction.result)
          = ConstructionThreshold(last_prediction.model)
    /\ VerdictOf(last_prediction.model, last_prediction.result)

\* the calibration state a model can be left in: as constructed, or as a
\* finished train call at some instant up to t leaves it
Calibrated(model_type, state, t) ==
    /\ state.version = Detectors[model_type].version
    /\ state.name = Detectors[model_type].name
    /\ \/ state.last_trained_at = NotTrained
       \/ \E at \in 0..t : state.last_trained_at = <<at>>

\* C26: every step leaves each model's calibration state as it was, or is a
\* train task of that model that ends with last_trained_at set to the instant
\* of the run and the version in place; a train task that has not run has
\* changed nothing, and the model a predict call reads is in one of these
\* states.
C26_TrainIsAllOrNothing ==
    [][/\ \A model_type \in DOMAIN detectors :
             \/ detectors'[model_type] = detectors[model_type]
             \/ /\ \E i \in 1..Len(train_tasks) : train_tasks[i].model_type = model_type
                /\ Len(train_tasks') = Len(train_tasks) - 1
                /\ detectors'[model_type].last_trained_at = <<now>>
                /\ Calibrated(model_type, detectors'[model_type], now)
       /\ \A model_type \in DOMAIN detectors :
             Calibrated(model_type, detectors'[model_type], now')
       /\ last_prediction'.model /= "none" =>
             Calibrated(last_prediction'.model, last_prediction'.self, now')]_vars

\* a predict call made while the model's train task was waiting read the
\* untrained model, and the task has since run
C26_Witness ==
    /\ Predicted
    /\ last_prediction.self.last_trained_at = NotTrained
    /\ detectors[last_prediction.model].last_trained_at /= NotTrained
    /\ train_tasks = <<>>

\* C30: a training request with an unknown model_type is answered 400 and
\* schedules no task; one with a known model_type is answered
\* training_started and schedules one train task, for that model.
C30_UnknownModelTypeIs400 ==
    \A r \in 1..Len(train_requests) :
        LET req == train_requests[r]
        IN IF req.model_type \in DOMAIN detectors
           THEN /\ req.response.status_code = 200
                /\ req.response.body.status = "training_started"
                /\ req.scheduled = <<req.model_type>>
           ELSE /\ req.response.status_code = 400
                /\ req.scheduled = <<>>

(***************************************************************************)
(* Status views                                                            *)
(***************************************************************************)
Viewed(view) == last_view.view = view

\* the rows of a table with the greatest created_at
MostRecent(table) ==
    {table[i] : i \in {i \in 1..Len(table) :
        \A j \in 1..Len(table) : table[i].created_at >= table[j].created_at}}

\* the bands of the claim: critical above high, warning above low, else healthy
Band(value, low, high) ==
    IF value > high THEN "critical"
    ELSE IF value > low /\ value <= high THEN "warning"
    ELSE "healthy"

\* C27: over a log history, logs-status reports the band of the error_rate of
\* a summary with the greatest created_at (critical above 0.10, warning above
\* 0.05 up to 0.10, healthy otherwise); over a trace history, traces-status
\* reports the band of the average latency of a summary with the greatest
\* created_at (critical above 1000 ms, warning above 500 up to 1000, healthy
\* otherwise); the order of insertion does not matter.
C27_HealthBandsOfLatest ==
    /\ (Viewed("logs-status") /\ log_analyses /= <<>>) =>
          \E latest \in MostRecent(log_analyses) :
              /\ last_view.rows[1] = latest
              /\ last_view.response.body.health
                    = Band(RecGet(latest, "error_rate", 0), 50, 100)
    /\ (Viewed("traces-status") /\ trace_analyses /= <<>>) =>
          \E latest \in MostRecent(trace_analyses) :
              /\ last_view.rows[1] = latest
              /\ last_view.response.body.health
                    = Band(RecGet(latest, "avg_duration_ms", 0), 500, 1000)

\* logs-status was served over two summaries of which the one inserted first
\* is the more recent, and its error_rate of exactly 0.10 was reported as
\* warning while the later-inserted one alone would have been critical
C27_Witness ==
    /\ Viewed("logs-status")
    /\ Len(log_analyses) = 2
    /\ log_analyses[1].created_at > log_analyses[2].created_at
    /\ RecGet(log_analyses[1], "error_rate", 0) = 100
    /\ RecGet(log_analyses[2], "error_rate", 0) = 101
    /\ last_view.response.body.health = "warning"

\* the payload each view computes from one stored row per table
DataBackedPayload(view) ==
    LET commit == <<CHOOSE row \in CommitRowInputs : TRUE>>
        log == <<CHOOSE row \in LogRowInputs : TRUE>>
        trace == <<CHOOSE row \in TraceRowInputs : TRUE>>
        healing == <<CHOOSE row \in HealingRowInputs : TRUE>>
    IN IF view = "commit-status" THEN get_commit_status(commit, 0)
       ELSE IF view = "self-healing-status" THEN get_self_healing_status(healing, 0)
       ELSE IF view = "logs-status" THEN get_logs_status(log, 0)
       ELSE IF view = "traces-status" THEN get_traces_status(trace, 0)
       ELSE get_platform_overview(1, 1, 1, 1, commit, log, trace, 0)

\* a payload a caller can tell from a data-backed one: it has other fields, or
\* another status, or (platform-overview) counts that are all 0
LabelledAsDefault(view, body) ==
    \/ DOMAIN body /= DOMAIN DataBackedPayload(view)
    \/ /\ "status" \in DOMAIN body
       /\ body.status /= DataBackedPayload(view).status
    \/ /\ view = "platform-overview"
       /\ body.metrics.commits_analyzed + body.metrics.logs_analyzed
             + body.metrics.traces_analyzed + body.metrics.healing_actions = 0

\* the queries of the view served last returned no row
ViewedNoHistory ==
    /\ last_view.view /= "none"
    /\ last_view.rows \in {<<>>, << <<>>, <<>>, <<>> >>}

\* C28: a view served over a store without history for its domain answers
\* without an error, with a payload labelled as a default.
C28_EmptyStoreViewIsLabelled ==
    ViewedNoHistory =>
        /\ last_view.response.status_code = 200
        /\ LabelledAsDefault(last_view.view, last_view.response.body)

(***************************************************************************)
(* The store                                                               *)
(***************************************************************************)
\* table' is table with rows added at its end
Extends(table, table_after) ==
    /\ Len(table_after) >= Len(table)
    /\ SubSeq(table_after, 1, Len(table)) = table

\* every HealingAction of the table is still there afterwards
KeepsActions(table, table_after) ==
    /\ Len(table_after) >= Len(table)
    /\ \A i \in 1..Len(table) : table_after[i].action_id = table[i].action_id

\* C29: a step that serves a status view leaves the four tables as they
\* were; every step leaves each analysis table with its rows unchanged and
\* new rows, if any, at the end, and keeps every healing action; so no row
\* count decreases.
C29_StoreAppendOnly ==
    [][/\ last_view' /= last_view =>
             UNCHANGED <<commit_analyses, log_analyses, trace_analyses, healing_actions>>
       /\ Extends(commit_analyses, commit_analyses')
       /\ Extends(log_analyses, log_analyses')
       /\ Extends(trace_analyses, trace_analyses')
       /\ KeepsActions(healing_actions, healing_actions')]_vars

\* over the store with history a heal request has added a healing action,
\* an ingestion request was handled, and a view was then served over the
\* two healing actions
C29_Witness ==
    /\ Len(healing_actions) = 2
    /\ healing_actions[1].action_id = "heal-past"
    /\ Len(log_analyses) = 1
    /\ ingest_requests /= <<>>
    /\ Viewed("self-healing-status")
    /\ Len(last_view.rows) = 2

================================================================
